---- MODULE Spec2Model ----
(***************************************************************************)
(* A model of airflow/operators/python_operator.py: the construction of a  *)
(* PythonVirtualenvOperator and the steps of execute_callable, with the    *)
(* temporary directory, the four files in it, the three subprocesses and   *)
(* the program that _generate_python_code writes.                          *)
(*                                                                         *)
(* Text is a sequence of one-character strings, so that startswith, strip, *)
(* join and the splitting of a file into lines are computed.  A Python     *)
(* value is a sequence of tokens: <<"None">>, <<"int", "0">>, <<"str">>    *)
(* (the empty string), <<"list">> (the empty list), ...                    *)
(***************************************************************************)
EXTENDS Integers, Sequences, FiniteSets, TLC

\* ------------------------------------------------------------------ bounds

\* Invocations of execute_callable of one operator instance, one after another.
MaxInvocations == 2
\* Longest requirements list drawn.
MaxReqs == 1
\* Longest string_args list drawn.
MaxStrArgs == 2

\* ------------------------------------------------------------------ text

NL == "\n"

Whitespace == {" ", NL, "\t", "\r"}

\* str.lower() on one character (the letters the inputs use).
LowerChar(c) ==
    CASE c = "D" -> "d"
      [] c = "I" -> "i"
      [] c = "L" -> "l"
      [] c = "N" -> "n"
      [] OTHER -> c

Lower(s) == [i \in 1..Len(s) |-> LowerChar(s[i])]

StartsWith(s, prefix) ==
    /\ Len(s) >= Len(prefix)
    /\ SubSeq(s, 1, Len(prefix)) = prefix

RECURSIVE LStrip(_)
LStrip(s) ==
    IF s # <<>> /\ Head(s) \in Whitespace THEN LStrip(Tail(s)) ELSE s

RECURSIVE RStrip(_)
RStrip(s) ==
    IF s # <<>> /\ s[Len(s)] \in Whitespace
    THEN RStrip(SubSeq(s, 1, Len(s) - 1))
    ELSE s

\* str.strip()
Strip(s) == RStrip(LStrip(s))

\* '\n'.join(strs)
RECURSIVE Join(_)
Join(strs) ==
    IF strs = <<>> THEN <<>>
    ELSE IF Len(strs) = 1 THEN strs[1]
    ELSE strs[1] \o <<NL>> \o Join(Tail(strs))

\* list(f) for a text file f: the lines of the text, each with its newline;
\* a text that does not end in a newline has a last line without one, and no
\* line follows a final newline.
RECURSIVE ReadLines(_, _)
ReadLines(text, cur) ==
    IF text = <<>>
    THEN IF cur = <<>> THEN <<>> ELSE <<cur>>
    ELSE IF Head(text) = NL
         THEN <<cur \o <<NL>>>> \o ReadLines(Tail(text), <<>>)
         ELSE ReadLines(Tail(text), cur \o <<Head(text)>>)

Digit == <<"0", "1", "2", "3", "4", "5", "6", "7", "8", "9">>

\* str(n) for a natural number
RECURSIVE DecStr(_)
DecStr(n) ==
    IF n < 10 THEN <<Digit[n + 1]>>
    ELSE DecStr(n \div 10) \o <<Digit[(n % 10) + 1]>>

\* ------------------------------------------------------------------ values

PyNone == <<"None">>

\* The values: None, three false-like values that are not None, two others.
PyValues ==
    { PyNone, <<"int", "0">>, <<"str">>, <<"list">>, <<"int", "5">>, <<"str", "x">> }

\* bool(v)
Truthy(v) == v \notin { PyNone, <<"int", "0">>, <<"str">>, <<"list">>, <<"dict">> }

\* A dict is a set of <<key, value>> pairs with distinct keys.
DictSet(d, k, v) == { e \in d : e[1] # k } \cup { <<k, v>> }

\* pickle.dump / dill.dump: the protocol header, the value's encoding and the
\* STOP opcode; never an empty byte string, whatever the value.
Dump(v) == <<"PROTO", v, "STOP">>

\* pickle.load / dill.load
Load(bytes) == bytes[2]


\* ------------------------------------------------------------------ inputs

\* What can be passed as python_callable.  is_function: an instance of
\* types.FunctionType in every interpreter; py3_function: one in Python 3 only
\* (a function looked up on its class is an unbound method in Python 2).
Callables ==
    { [kind |-> "def_function", is_callable |-> TRUE, is_function |-> TRUE,
       py3_function |-> TRUE, name |-> "f", freevars |-> FALSE],
      [kind |-> "lambda", is_callable |-> TRUE, is_function |-> TRUE,
       py3_function |-> TRUE, name |-> "<lambda>", freevars |-> FALSE],
      [kind |-> "closure", is_callable |-> TRUE, is_function |-> TRUE,
       py3_function |-> TRUE, name |-> "f", freevars |-> TRUE],
      [kind |-> "bound_method", is_callable |-> TRUE, is_function |-> FALSE,
       py3_function |-> FALSE, name |-> "f", freevars |-> FALSE],
      [kind |-> "class_function", is_callable |-> TRUE, is_function |-> FALSE,
       py3_function |-> TRUE, name |-> "f", freevars |-> FALSE],
      [kind |-> "callable_object", is_callable |-> TRUE, is_function |-> FALSE,
       py3_function |-> FALSE, name |-> "", freevars |-> FALSE],
      [kind |-> "not_callable", is_callable |-> FALSE, is_function |-> FALSE,
       py3_function |-> FALSE, name |-> "", freevars |-> FALSE] }

DefFunction == CHOOSE c \in Callables : c.kind = "def_function"

\* Requirement strings: another package, dill, dill pinned and capitalised,
\* and a package whose name only begins with the letters of dill.
ReqNames ==
    { <<"n", "p">>,
      <<"d", "i", "l", "l">>,
      <<"D", "i", "l", "l", "=", "=", "1">>,
      <<"d", "i", "l", "l", "x">> }

SeqsUpTo(S, n) == UNION { [1..k -> S] : k \in 0..n }

\* An argument that may be left out: None, or a value (val is e when None).
Opt(S, e) == { [none |-> TRUE, val |-> e] } \cup { [none |-> FALSE, val |-> v] : v \in S }
NoList == [none |-> TRUE, val |-> <<>>]
NoDict == [none |-> TRUE, val |-> {}]

\* x or e, for a list or a dict x and the empty one e
OrEmpty(x, e) == IF x.none \/ x.val = e THEN e ELSE x.val

ReqLists == SeqsUpTo(ReqNames, MaxReqs)

\* python_version: None, or a major version with or without a minor one
\* (minor = -1: none), as "2" and "2.7" are both accepted.
Versions ==
    { [none |-> TRUE, major |-> 0, minor |-> -1],
      [none |-> FALSE, major |-> 2, minor |-> -1],
      [none |-> FALSE, major |-> 2, minor |-> 7],
      [none |-> FALSE, major |-> 3, minor |-> -1],
      [none |-> FALSE, major |-> 3, minor |-> 6] }

NoVersion == [none |-> TRUE, major |-> 0, minor |-> -1]

\* sys.version_info[0] of the interpreter that builds and runs the operator
SysMajors == {2, 3}

OpArgsChoices == { <<>>, << <<"int", "2">>, <<"int", "3">> >> }

OpKwargsChoices == { {}, { <<"k", <<"int", "1">>>> } }

\* templates_dict: None, an empty dict, a dict with one entry
TemplatesChoices == { PyNone, <<"dict">>, <<"dict", "t", "v">> }

StrChoices ==
    { <<>>, <<"a">>, <<" ", "a", " ">>, <<" ">>, <<"b">>, <<"a", NL, "b">> }

StringArgLists == SeqsUpTo(StrChoices, MaxStrArgs)

\* The constructor's arguments and the interpreter's major version.
DefaultArgs ==
    [python_callable |-> DefFunction,
     requirements |-> NoList,
     python_version |-> NoVersion,
     use_dill |-> FALSE,
     system_site_packages |-> TRUE,
     op_args |-> NoList,
     op_kwargs |-> NoDict,
     string_args |-> NoList,
     templates_dict |-> PyNone,
     sys_major |-> 3]

\* The inputs drawn: the callable with the environment's packages, the
\* interpreter versions with the arguments, and the string_args.
CallableInputs ==
    { [DefaultArgs EXCEPT !.python_callable = c, !.requirements = r,
                          !.use_dill = d, !.system_site_packages = s,
                          !.sys_major = m] :
        c \in Callables, r \in Opt(ReqLists, <<>>), d \in BOOLEAN, s \in BOOLEAN,
        m \in SysMajors }

VersionInputs ==
    { [DefaultArgs EXCEPT !.python_version = v, !.sys_major = m, !.op_args = a,
                          !.op_kwargs = k, !.templates_dict = t, !.use_dill = d,
                          !.string_args = s] :
        v \in Versions, m \in SysMajors, a \in Opt(OpArgsChoices, <<>>),
        k \in Opt(OpKwargsChoices, {}), t \in TemplatesChoices, d \in BOOLEAN,
        s \in { NoList, [none |-> FALSE, val |-> << <<"a">> >>] } }

StringInputs ==
    { [DefaultArgs EXCEPT !.string_args = s] : s \in Opt(StringArgLists, <<>>) }

\* Two requirements in either order, with the options of the environment.
ProvisionInputs ==
    { [DefaultArgs EXCEPT !.requirements = [none |-> FALSE, val |-> r],
                          !.python_version = v, !.system_site_packages = s] :
        r \in { << <<"n", "p">>, <<"d", "i", "l", "l">> >>,
                << <<"d", "i", "l", "l">>, <<"n", "p">> >> },
        v \in Versions, s \in BOOLEAN }

Inputs == CallableInputs \cup VersionInputs \cup StringInputs \cup ProvisionInputs


\* ------------------------------------------------------------------ state

VARIABLES
    args,      \* per process: the constructor's arguments and sys.version_info[0]
    op,        \* per process: the operator instance's attributes
    pc,        \* per process: "new", "ctor_failed", "idle", the step to run next,
               \* "DONE" or "FAILED"
    fs,        \* the temporary directories ever made, in order of creation
    tmp_dir,   \* per process: the directory of the invocation (0: none yet)
    hist,      \* per process: the steps the invocation has entered, in order
    spawned,   \* per process: the commands the invocation has run, each with
               \* its exit status
    raised,    \* per process: the exception that left __init__ or execute_callable
    ret,       \* per process: what execute_callable returned
    script,    \* per process: what the generated program did when it ran
    seen,      \* per process: what _read_result found in the output file
    ninv,      \* per process: invocations begun
    dag,       \* the task graph: the pairs <<t, u>> with u directly downstream of t
    skipop,    \* the BranchPythonOperator or ShortCircuitOperator task of the
               \* graph: what its execute has done
    log,       \* per process: the latest call of _execute_in_subprocess, what it
               \* logged and did, in order
    codec      \* per process: the library that wrote the arguments and the
               \* one that read the result, "none" before

vars ==
    <<args, op, pc, fs, tmp_dir, hist, spawned, raised, ret, script, seen, ninv,
      dag, skipop, log, codec>>

Procs == DOMAIN pc

\* ------------------------------------------------------------------ __init__

PassOpArgs(o) == Len(o.op_args) + Cardinality(o.op_kwargs) > 0

\* str(python_version)
VersionStr(v) ==
    IF v.minor < 0 THEN DecStr(v.major)
    ELSE DecStr(v.major) \o <<".">> \o DecStr(v.minor)

\* A faulty version check: the whole version text compared with the major.
VersionDiffersWhole(v, m) == (~v.none) /\ VersionStr(v) # DecStr(m)

\* python_version is not None and str(python_version)[0] != str(sys.version_info[0])
VersionDiffers(v, m) == (~v.none) /\ <<Head(VersionStr(v))>> # DecStr(m)

\* any(map(lambda x: x.lower().startswith('dill'), requirements))
DillInRequirements(reqs) ==
    \E i \in 1..Len(reqs) : StartsWith(Lower(reqs[i]), <<"d", "i", "l", "l">>)

\* isinstance(python_callable, types.FunctionType)
IsFunctionType(c, m) == c.is_function \/ (m = 3 /\ c.py3_function)

\* A faulty function check: the test of the name left out.
AnyFunction(c, m) == IsFunctionType(c, m)

\* a function, and not one named as a lambda is
FunctionNotLambda(c, m) == IsFunctionType(c, m) /\ c.name # "<lambda>"

\* The attributes __init__ sets from its arguments.
Attributes(a) ==
    [python_callable |-> a.python_callable,
     op_args |-> OrEmpty(a.op_args, <<>>),
     op_kwargs |-> OrEmpty(a.op_kwargs, {}),
     provide_context |-> FALSE,
     templates_dict |-> a.templates_dict,
     requirements |-> OrEmpty(a.requirements, <<>>),
     string_args |-> OrEmpty(a.string_args, <<>>),
     python_version |-> a.python_version,
     use_dill |-> a.use_dill,
     system_site_packages |-> a.system_site_packages]

\* The exception __init__ raises for arguments a, "none" when it returns.
InitError(a) ==
    LET o == Attributes(a) IN
    IF ~a.python_callable.is_callable THEN "not_callable"
    ELSE IF (~a.system_site_packages) /\ a.use_dill
            /\ ~DillInRequirements(o.requirements) THEN "dill_missing"
    ELSE IF ~FunctionNotLambda(o.python_callable, a.sys_major) THEN "not_function"
    ELSE IF VersionDiffers(a.python_version, a.sys_major) /\ PassOpArgs(o)
         THEN "cross_version"
    ELSE "none"

NoRet == [set |-> FALSE, val |-> PyNone]

NoScript ==
    [ran |-> FALSE, loaded |-> FALSE, arg_dict |-> [args |-> <<>>, kwargs |-> {}], read_strings |-> FALSE,
     virtualenv_string_args |-> <<>>, called |-> FALSE, res |-> PyNone,
     returned |-> FALSE, opened_out |-> FALSE,
     load_lib |-> "none", dump_lib |-> "none",
     in_path |-> [dir |-> 0, s |-> "", v |-> <<>>],
     str_path |-> [dir |-> 0, s |-> "", v |-> <<>>],
     out_path |-> [dir |-> 0, s |-> "", v |-> <<>>]]

NoSeen == [stat |-> FALSE, size |-> 0]

NoLog == [events |-> <<>>, status |-> 0, output |-> FALSE]

NoCodec == [write_args |-> "none", read_result |-> "none"]

\* Operators not yet constructed, one for each process of ps, with arguments
\* drawn from ins.
InitWith(ps, ins) ==
    /\ args \in [ps -> ins]
    /\ op = [p \in ps |-> Attributes(DefaultArgs)]
    /\ pc = [p \in ps |-> "new"]
    /\ fs = <<>>
    /\ tmp_dir = [p \in ps |-> 0]
    /\ hist = [p \in ps |-> <<>>]
    /\ spawned = [p \in ps |-> <<>>]
    /\ raised = [p \in ps |-> "none"]
    /\ ret = [p \in ps |-> NoRet]
    /\ script = [p \in ps |-> NoScript]
    /\ seen = [p \in ps |-> NoSeen]
    /\ ninv = [p \in ps |-> 0]
    /\ log = [p \in ps |-> NoLog]
    /\ codec = [p \in ps |-> NoCodec]

InitFor(ps) == InitWith(ps, Inputs)

\* No task graph, and no execute of a branching task.
NoSkipOp == [pc |-> "none", kind |-> "none", ret |-> PyNone, branch |-> 0,
             skipped |-> {}, skip_calls |-> 0]

Init ==
    /\ InitFor({1})
    /\ dag = {}
    /\ skipop = NoSkipOp

\* PythonVirtualenvOperator(...)
Construct(p) ==
    /\ pc[p] = "new"
    /\ LET e == InitError(args[p]) IN
        /\ pc' = [pc EXCEPT ![p] = IF e = "none" THEN "idle" ELSE "ctor_failed"]
        /\ raised' = [raised EXCEPT ![p] = e]
        /\ op' = [op EXCEPT ![p] = IF e = "none" THEN Attributes(args[p]) ELSE @]
    /\ UNCHANGED <<args, fs, tmp_dir, hist, spawned, ret, script, seen, ninv, log, codec>>


\* ------------------------------------------------------------------ files

FileNames == {"script.in", "script.out", "string_args.txt", "script.py"}

NoFile == [exists |-> FALSE, data |-> <<>>]

\* What mkdtemp makes: a directory with nothing in it.
EmptyDir ==
    [exists |-> TRUE, venv |-> FALSE, installed |-> <<>>,
     files |-> [n \in FileNames |-> NoFile]]

\* shutil.rmtree: the directory and all in it are gone.
RmTree(f, d) ==
    [f EXCEPT ![d] = [exists |-> FALSE, venv |-> FALSE, installed |-> <<>>,
                      files |-> [n \in FileNames |-> NoFile]]]

\* A faulty exit: the directory made without a context manager, and left.
ExitWithout(f, d) == f

\* Leaving the block of "with TemporaryDirectory(prefix='venv') as tmp_dir",
\* by return or by an exception: the context manager removes the directory.
ExitWith(f, d) == RmTree(f, d)

\* A word of a command: a literal, a path in a directory, or a literal
\* followed by text.
Lit(s) == [dir |-> 0, s |-> s, v |-> <<>>]
Path(d, name) == [dir |-> d, s |-> name, v |-> <<>>]
Txt(s, v) == [dir |-> 0, s |-> s, v |-> v]

FileAt(f, path) == f[path.dir].files[path.s]

WriteFile(f, path, data) ==
    [f EXCEPT ![path.dir].files[path.s] = [exists |-> TRUE, data |-> data]]

\* A faulty path: the output file in one place for every invocation.
OutputFilenameShared(d) == Path(1, "script.out")

\* os.path.join(tmp_dir, ...) for the four files
InputFilename(d) == Path(d, "script.in")
OutputFilename(d) == Path(d, "script.out")
StringArgsFilename(d) == Path(d, "string_args.txt")
ScriptFilename(d) == Path(d, "script.py")

\* ------------------------------------------------------------------ commands

GenerateVirtualenvCmd(o, d) ==
    <<Lit("virtualenv"), Path(d, "")>>
    \o (IF o.system_site_packages THEN <<Lit("--system-site-packages")>> ELSE <<>>)
    \o (IF ~o.python_version.none
        THEN <<Txt("--python=python", VersionStr(o.python_version))>>
        ELSE <<>>)

\* A faulty command: the requirements last to first.
GeneratePipInstallCmdReversed(o, d) ==
    IF Len(o.requirements) = 0 THEN <<>>
    ELSE <<Path(d, "bin/pip"), Lit("install")>>
         \o [i \in 1..Len(o.requirements) |->
                Txt("", o.requirements[Len(o.requirements) + 1 - i])]

GeneratePipInstallCmd(o, d) ==
    IF Len(o.requirements) = 0 THEN <<>>
    ELSE <<Path(d, "bin/pip"), Lit("install")>>
         \o [i \in 1..Len(o.requirements) |-> Txt("", o.requirements[i])]

\* A faulty command: the input and the output file in each other's place.
GeneratePythonCmdSwapped(d, script_fn, input_fn, output_fn, string_args_fn) ==
    <<Path(d, "bin/python"), script_fn, output_fn, input_fn, string_args_fn>>

GeneratePythonCmd(d, script_fn, input_fn, output_fn, string_args_fn) ==
    <<Path(d, "bin/python"), script_fn, input_fn, output_fn, string_args_fn>>

\* ------------------------------------------------------------------ the program

PicklingLibrary(o) == IF o.use_dill THEN "dill" ELSE "pickle"

Line(what, argv, lib, name) == [what |-> what, argv |-> argv, lib |-> lib, name |-> name]

\* A faulty load_args_line: the program always reads the input file.
LoadArgsAlways(o) == Line("load_args", 1, PicklingLibrary(o), "")

\* load_args_line
LoadArgsLine(o) ==
    IF PassOpArgs(o)
    THEN Line("load_args", 1, PicklingLibrary(o), "")
    ELSE Line("empty_args", 0, "", "")

\* The text of the program, line by line.
GeneratePythonCode(o) ==
    << Line("import", 0, PicklingLibrary(o), ""),
       Line("import", 0, "sys", ""),
       LoadArgsLine(o),
       Line("bind_args", 0, "", ""),
       Line("read_string_args", 3, "", ""),
       Line("define", 0, "", o.python_callable.name),
       Line("call", 0, "", o.python_callable.name),
       Line("dump_result", 2, PicklingLibrary(o), "") >>

\* The line of a program that does `what` (the program has one).
TheLine(code, what) == code[CHOOSE i \in 1..Len(code) : code[i].what = what]
HasLine(code, what) == \E i \in 1..Len(code) : code[i].what = what

\* sys.argv[n] of the program run by cmd: cmd[1] is the interpreter and
\* cmd[2], the script, is sys.argv[0].
Argv(cmd, n) == cmd[n + 2]

\* A faulty guard: 'res and <library>.dump(res, f)'.
DumpIfTruthy(res) == Truthy(res)

\* res is not None and <library>.dump(res, f)
DumpGuard(res) == res # PyNone

\* A faulty end of the program: the output file is opened only for a result
\* to dump.
WriteResultIfNotNone(f, out, res) ==
    IF DumpGuard(res) THEN WriteFile(f, out, Dump(res)) ELSE f

\* with open(sys.argv[2], 'wb') as f: res is not None and <library>.dump(res, f)
WriteResult(f, out, res) ==
    WriteFile(f, out, IF DumpGuard(res) THEN Dump(res) ELSE <<>>)

\* What the function does when the program calls it: it returns a value,
\* raises, or ends the process with status 0; "crash" is a program that fails
\* before the call (an import, the unpickling of the arguments).
FnOutcomes ==
    { [kind |-> "return", val |-> v] : v \in PyValues }
    \cup { [kind |-> k, val |-> PyNone] : k \in {"crash", "raise", "exit0"} }

\* The run of the program cmd[2] with the files of f: the files after it, what
\* it did and its exit status.
RunProgram(f, cmd, outcome) ==
    LET code == FileAt(f, cmd[2]).data
        loads == HasLine(code, "load_args")
        inpath == Argv(cmd, TheLine(code, "load_args").argv)
        spath == Argv(cmd, TheLine(code, "read_string_args").argv)
        inp == FileAt(f, inpath)
        sfile == FileAt(f, spath)
        out == Argv(cmd, TheLine(code, "dump_result").argv)
        crash == \/ outcome.kind = "crash"
                 \/ loads /\ ~inp.exists
                 \/ ~sfile.exists
        lines == ReadLines(sfile.data, <<>>)
        obs0 == [NoScript EXCEPT !.ran = TRUE]
        obs1 == [obs0 EXCEPT
                   !.loaded = loads,
                   !.arg_dict = IF loads THEN Load(inp.data)
                                ELSE [args |-> <<>>, kwargs |-> {}],
                   !.in_path = IF loads THEN inpath ELSE @,
                   !.load_lib = IF loads THEN TheLine(code, "load_args").lib ELSE @,
                   !.read_strings = TRUE,
                   !.str_path = spath,
                   !.virtualenv_string_args = [i \in 1..Len(lines) |-> Strip(lines[i])],
                   !.called = TRUE]
    IN  IF crash THEN [fs |-> f, obs |-> obs0, status |-> 1]
        ELSE IF outcome.kind = "raise" THEN [fs |-> f, obs |-> obs1, status |-> 1]
        ELSE IF outcome.kind = "exit0" THEN [fs |-> f, obs |-> obs1, status |-> 0]
        ELSE [fs |-> WriteResult(f, out, outcome.val),
              obs |-> [obs1 EXCEPT !.res = outcome.val, !.returned = TRUE,
                                   !.opened_out = TRUE, !.out_path = out,
                                   !.dump_lib = IF DumpGuard(outcome.val)
                                                THEN TheLine(code, "dump_result").lib
                                                ELSE @],
              status |-> 0]


\* ------------------------------------------------------------------ execute_callable

Steps ==
    <<"INIT", "PROVISION_ENV", "INSTALL_DEPS", "WRITE_INPUTS", "WRITE_SCRIPT",
      "WRITE_STRING_ARGS", "RUN", "READ_RESULT", "DONE">>

\* A faulty order: the program is run before string_args.txt is written.
NextStepRunEarly(o, step) ==
    CASE step = "INIT" -> "PROVISION_ENV"
      [] step = "PROVISION_ENV" ->
            IF GeneratePipInstallCmd(o, 0) # <<>> THEN "INSTALL_DEPS" ELSE "WRITE_INPUTS"
      [] step = "INSTALL_DEPS" -> "WRITE_INPUTS"
      [] step = "WRITE_INPUTS" -> "WRITE_SCRIPT"
      [] step = "WRITE_SCRIPT" -> "RUN"
      [] step = "RUN" -> "WRITE_STRING_ARGS"
      [] step = "WRITE_STRING_ARGS" -> "READ_RESULT"
      [] step = "READ_RESULT" -> "DONE"

\* The statement that follows each statement of execute_callable.
NextStep(o, step) ==
    CASE step = "INIT" -> "PROVISION_ENV"
      [] step = "PROVISION_ENV" ->
            IF GeneratePipInstallCmd(o, 0) # <<>> THEN "INSTALL_DEPS" ELSE "WRITE_INPUTS"
      [] step = "INSTALL_DEPS" -> "WRITE_INPUTS"
      [] step = "WRITE_INPUTS" -> "WRITE_SCRIPT"
      [] step = "WRITE_SCRIPT" -> "WRITE_STRING_ARGS"
      [] step = "WRITE_STRING_ARGS" -> "RUN"
      [] step = "RUN" -> "READ_RESULT"
      [] step = "READ_RESULT" -> "DONE"

\* A faulty handler: the CalledProcessError is logged and not raised again.
SwallowError(status) == "none"

\* _execute_in_subprocess: subprocess.check_output raises CalledProcessError
\* on a non-zero exit status, and the handler raises it again.
SubprocessError(status) == IF status # 0 THEN "CalledProcessError" ELSE "none"

\* A faulty runner: the command is logged when it has been executed.
ExecuteInSubprocessLogLate(status, output) ==
    <<"check_output", "log Executing cmd">>
    \o (IF status = 0
        THEN (IF output THEN <<"log Got output">> ELSE <<>>)
        ELSE <<"log Got error output">>)
    \o (IF SubprocessError(status) # "none" THEN <<"raise">> ELSE <<"return">>)

\* _execute_in_subprocess: what it logs and does, in order, for a command that
\* exits with status and has, or has not, written output
ExecuteInSubprocess(status, output) ==
    <<"log Executing cmd", "check_output">>
    \o (IF status = 0
        THEN (IF output THEN <<"log Got output">> ELSE <<>>)
        ELSE <<"log Got error output">>)
    \o (IF SubprocessError(status) # "none" THEN <<"raise">> ELSE <<"return">>)

\* The call of _execute_in_subprocess by process p
Logged(p, status, output) ==
    log' = [log EXCEPT ![p] = [events |-> ExecuteInSubprocess(status, output),
                               status |-> status, output |-> output]]

\* The end of a step of process p that leaves the files as f: with no
\* exception the next statement runs; an exception leaves the with block.
\* A return leaves it too.
EndStep(p, step, f, exc) ==
    LET next == NextStep(op[p], step)
        leaves == exc # "none" \/ next = "DONE"
    IN  /\ hist' = [hist EXCEPT ![p] = Append(@, step)]
        /\ pc' = [pc EXCEPT ![p] = IF exc # "none" THEN "FAILED" ELSE next]
        /\ raised' = [raised EXCEPT ![p] = exc]
        /\ fs' = IF leaves THEN ExitWith(f, tmp_dir[p]) ELSE f

\* A faulty merge: templates_dict goes into op_kwargs whatever it is.
MergeTemplatesAlways(o) ==
    [o EXCEPT !.op_kwargs = DictSet(@, "templates_dict", o.templates_dict)]

\* if self.templates_dict: self.op_kwargs['templates_dict'] = self.templates_dict
MergeTemplates(o) ==
    IF Truthy(o.templates_dict)
    THEN [o EXCEPT !.op_kwargs = DictSet(@, "templates_dict", o.templates_dict)]
    ELSE o

\* with TemporaryDirectory(prefix='venv') as tmp_dir, and the merge of
\* templates_dict into op_kwargs
Begin(p) ==
    /\ pc[p] \in {"idle", "DONE", "FAILED"}
    /\ ninv[p] < MaxInvocations
    /\ ninv' = [ninv EXCEPT ![p] = @ + 1]
    /\ tmp_dir' = [tmp_dir EXCEPT ![p] = Len(fs) + 1]
    /\ fs' = Append(fs, EmptyDir)
    /\ op' = [op EXCEPT ![p] = MergeTemplates(@)]
    /\ hist' = [hist EXCEPT ![p] = <<"INIT">>]
    /\ pc' = [pc EXCEPT ![p] = NextStep(op[p], "INIT")]
    /\ spawned' = [spawned EXCEPT ![p] = <<>>]
    /\ raised' = [raised EXCEPT ![p] = "none"]
    /\ ret' = [ret EXCEPT ![p] = NoRet]
    /\ script' = [script EXCEPT ![p] = NoScript]
    /\ seen' = [seen EXCEPT ![p] = NoSeen]
    /\ log' = [log EXCEPT ![p] = NoLog]
    /\ codec' = [codec EXCEPT ![p] = NoCodec]
    /\ UNCHANGED args

\* self._execute_in_subprocess(self._generate_virtualenv_cmd(tmp_dir))
ProvisionEnv(p) ==
    /\ pc[p] = "PROVISION_ENV"
    /\ \E status \in {0, 1}, output \in BOOLEAN :
        LET cmd == GenerateVirtualenvCmd(op[p], tmp_dir[p])
            f == IF status = 0 THEN [fs EXCEPT ![cmd[2].dir].venv = TRUE] ELSE fs
        IN  /\ spawned' = [spawned EXCEPT ![p] = Append(@, [cmd |-> cmd, status |-> status])]
            /\ Logged(p, status, output)
            /\ EndStep(p, "PROVISION_ENV", f, SubprocessError(status))
    /\ UNCHANGED <<args, op, tmp_dir, ret, script, seen, ninv, codec>>

\* cmd = self._generate_pip_install_cmd(tmp_dir); if cmd: run it
InstallDeps(p) ==
    /\ pc[p] = "INSTALL_DEPS"
    /\ \E status \in {0, 1}, output \in BOOLEAN :
        LET cmd == GeneratePipInstallCmd(op[p], tmp_dir[p])
            f == IF status = 0
                 THEN [fs EXCEPT ![cmd[1].dir].installed =
                          [i \in 1..(Len(cmd) - 2) |-> cmd[i + 2].v]]
                 ELSE fs
        IN  /\ spawned' = [spawned EXCEPT ![p] = Append(@, [cmd |-> cmd, status |-> status])]
            /\ Logged(p, status, output)
            /\ EndStep(p, "INSTALL_DEPS", f, SubprocessError(status))
    /\ UNCHANGED <<args, op, tmp_dir, ret, script, seen, ninv, codec>>

\* The library of _write_args: dill.dump if self.use_dill, else pickle.dump
WriteArgsLibrary(o) == IF o.use_dill THEN "dill" ELSE "pickle"

\* A faulty _read_result: pickle.load whatever use_dill is.
ReadResultPickle(o) == "pickle"

\* The library of _read_result: dill.load if self.use_dill, else pickle.load
ReadResultLibrary(o) == IF o.use_dill THEN "dill" ELSE "pickle"

\* _write_args: the file after it, written only when there are arguments
WriteArgs(o, f, input_filename) ==
    IF PassOpArgs(o)
    THEN WriteFile(f, input_filename, Dump([args |-> o.op_args, kwargs |-> o.op_kwargs]))
    ELSE f

\* self._write_args(input_filename); the dump or the write may raise
WriteInputs(p) ==
    /\ pc[p] = "WRITE_INPUTS"
    /\ \E exc \in {"none", "PicklingError"} :
        /\ exc # "none" => PassOpArgs(op[p])
        /\ EndStep(p, "WRITE_INPUTS",
                   IF exc = "none" THEN WriteArgs(op[p], fs, InputFilename(tmp_dir[p]))
                   ELSE fs,
                   exc)
        /\ codec' = IF exc = "none" /\ PassOpArgs(op[p])
                    THEN [codec EXCEPT ![p].write_args = WriteArgsLibrary(op[p])]
                    ELSE codec
    /\ UNCHANGED <<args, op, tmp_dir, spawned, ret, script, seen, ninv, log>>

\* self._write_script(script_filename); inspect.getsource may raise
WriteScript(p) ==
    /\ pc[p] = "WRITE_SCRIPT"
    /\ \E exc \in {"none", "IOError"} :
        EndStep(p, "WRITE_SCRIPT",
                IF exc = "none"
                THEN WriteFile(fs, ScriptFilename(tmp_dir[p]), GeneratePythonCode(op[p]))
                ELSE fs,
                exc)
    /\ UNCHANGED <<args, op, tmp_dir, spawned, ret, script, seen, ninv, log, codec>>

\* self._write_string_args(string_args_filename)
WriteStringArgs(p) ==
    /\ pc[p] = "WRITE_STRING_ARGS"
    /\ \E exc \in {"none", "IOError"} :
        EndStep(p, "WRITE_STRING_ARGS",
                IF exc = "none"
                THEN WriteFile(fs, StringArgsFilename(tmp_dir[p]), Join(op[p].string_args))
                ELSE fs,
                exc)
    /\ UNCHANGED <<args, op, tmp_dir, spawned, ret, script, seen, ninv, log, codec>>

\* self._execute_in_subprocess(self._generate_python_cmd(...))
Run(p) ==
    /\ pc[p] = "RUN"
    /\ \E outcome \in FnOutcomes, output \in BOOLEAN :
        LET d == tmp_dir[p]
            cmd == GeneratePythonCmd(d, ScriptFilename(d), InputFilename(d),
                                     OutputFilename(d), StringArgsFilename(d))
            r == RunProgram(fs, cmd, outcome)
        IN  /\ spawned' = [spawned EXCEPT ![p] = Append(@, [cmd |-> cmd, status |-> r.status])]
            /\ Logged(p, r.status, output)
            /\ script' = [script EXCEPT ![p] = r.obs]
            /\ EndStep(p, "RUN", r.fs, SubprocessError(r.status))
    /\ UNCHANGED <<args, op, tmp_dir, ret, seen, ninv, codec>>

\* return self._read_result(output_filename)
ReadResult(p) ==
    /\ pc[p] = "READ_RESULT"
    /\ LET file == FileAt(fs, OutputFilename(tmp_dir[p])) IN
        \/ /\ ~file.exists
           /\ EndStep(p, "READ_RESULT", fs, "OSError")
           /\ UNCHANGED <<ret, seen, codec>>
        \/ /\ file.exists
           /\ seen' = [seen EXCEPT ![p] = [stat |-> TRUE, size |-> Len(file.data)]]
           /\ codec' = IF Len(file.data) = 0 THEN codec
                       ELSE [codec EXCEPT ![p].read_result = ReadResultLibrary(op[p])]
           /\ \/ /\ Len(file.data) = 0
                 /\ ret' = [ret EXCEPT ![p] = [set |-> TRUE, val |-> PyNone]]
                 /\ EndStep(p, "READ_RESULT", fs, "none")
              \/ /\ Len(file.data) # 0
                 /\ ret' = [ret EXCEPT ![p] = [set |-> TRUE, val |-> Load(file.data)]]
                 /\ EndStep(p, "READ_RESULT", fs, "none")
              \/ /\ Len(file.data) # 0
                 /\ VersionDiffers(op[p].python_version, args[p].sys_major)
                 /\ UNCHANGED ret
                 /\ EndStep(p, "READ_RESULT", fs, "ValueError")
    /\ UNCHANGED <<args, op, tmp_dir, spawned, script, ninv, log>>

Next ==
    \/ \E p \in Procs : Construct(p) /\ UNCHANGED <<dag, skipop>>
    \/ \E p \in Procs : Begin(p) /\ UNCHANGED <<dag, skipop>>
    \/ \E p \in Procs : ProvisionEnv(p) /\ UNCHANGED <<dag, skipop>>
    \/ \E p \in Procs : InstallDeps(p) /\ UNCHANGED <<dag, skipop>>
    \/ \E p \in Procs : WriteInputs(p) /\ UNCHANGED <<dag, skipop>>
    \/ \E p \in Procs : WriteScript(p) /\ UNCHANGED <<dag, skipop>>
    \/ \E p \in Procs : WriteStringArgs(p) /\ UNCHANGED <<dag, skipop>>
    \/ \E p \in Procs : Run(p) /\ UNCHANGED <<dag, skipop>>
    \/ \E p \in Procs : ReadResult(p) /\ UNCHANGED <<dag, skipop>>

Spec == Init /\ [][Next]_vars

\* The arguments of the operators that run side by side: one with a
\* requirement, one with arguments and string_args, one with neither.
ConcInputs ==
    { [DefaultArgs EXCEPT !.requirements = [none |-> FALSE, val |-> << <<"n", "p">> >>]],
      [DefaultArgs EXCEPT !.op_args = [none |-> FALSE,
                                       val |-> << <<"int", "2">>, <<"int", "3">> >>],
                          !.string_args = [none |-> FALSE, val |-> << <<"a">> >>]],
      DefaultArgs }

\* Two operators, each in a process of its own.
InitConc ==
    /\ InitWith({1, 2}, ConcInputs)
    /\ ConcInputs \subseteq Inputs
    /\ dag = {}
    /\ skipop = NoSkipOp

\* The steps of the two, interleaved in any order; each is invoked once.
NextConc ==
    \/ \E p \in Procs : Construct(p) /\ UNCHANGED <<dag, skipop>>
    \/ \E p \in Procs : Begin(p) /\ pc[p] = "idle" /\ UNCHANGED <<dag, skipop>>
    \/ \E p \in Procs : ProvisionEnv(p) /\ UNCHANGED <<dag, skipop>>
    \/ \E p \in Procs : InstallDeps(p) /\ UNCHANGED <<dag, skipop>>
    \/ \E p \in Procs : WriteInputs(p) /\ UNCHANGED <<dag, skipop>>
    \/ \E p \in Procs : WriteScript(p) /\ UNCHANGED <<dag, skipop>>
    \/ \E p \in Procs : WriteStringArgs(p) /\ UNCHANGED <<dag, skipop>>
    \/ \E p \in Procs : Run(p) /\ UNCHANGED <<dag, skipop>>
    \/ \E p \in Procs : ReadResult(p) /\ UNCHANGED <<dag, skipop>>

SpecConc == InitConc /\ [][NextConc]_vars


\* ------------------------------------------------------------------ branching

\* Tasks of a graph other than the branching task itself, which is task 0.
MaxTasks == 3

TaskIds == 0..MaxTasks

\* The graphs: an edge goes from a task to one of a higher number (no cycle).
Dags == SUBSET { <<t, u>> \in TaskIds \X TaskIds : t < u }

\* A task object
Task(id) == [task_id |-> id]

\* task.downstream_list: the tasks directly downstream of task t
DownstreamList(g, t) == { Task(e[2]) : e \in { x \in g : x[1] = t } }

\* task.get_flat_relatives(upstream=False): the tasks downstream of t, and
\* those downstream of them, and so on
RECURSIVE FlatRelatives(_, _)
FlatRelatives(g, t) ==
    LET direct == DownstreamList(g, t)
    IN  direct \cup UNION { FlatRelatives(g, u.task_id) : u \in direct }

\* task == x for a task object and a task_id x, which is a str: an operator
\* equals only an object of its own type.
TaskEqualsId(task, x) == FALSE

\* x in tasks, for a task_id x and a list of task objects
IdInTasks(x, tasks) == \E t \in tasks : TaskEqualsId(t, x)

\* SkipMixin.skip(dag_run, execution_date, tasks): the tasks are marked skipped
Skip(so, tasks) ==
    [so EXCEPT !.skipped = @ \cup { t.task_id : t \in tasks },
               !.skip_calls = @ + 1]

\* skip_tasks of BranchPythonOperator.execute
BranchSkipTasks(g, branch) ==
    LET downstream_tasks == DownstreamList(g, 0)
        branch_downstream_tasks == DownstreamList(g, branch)
        skip_tasks == { t \in downstream_tasks : t.task_id # branch }
    IN  { t \in skip_tasks : ~IdInTasks(t.task_id, branch_downstream_tasks) }

\* BranchPythonOperator.execute, the callable returning the task_id branch of
\* another task of the graph
BranchExecute ==
    /\ skipop.pc = "start"
    /\ \E branch \in TaskIds \ {0} :
        LET so == [skipop EXCEPT !.pc = "done", !.kind = "branch", !.branch = branch]
        IN  skipop' = IF DownstreamList(dag, 0) # {}
                      THEN Skip(so, BranchSkipTasks(dag, branch))
                      ELSE so
    /\ UNCHANGED <<args, op, pc, fs, tmp_dir, hist, spawned, raised, ret, script,
                   seen, ninv, dag, log, codec>>

\* A faulty test: the workflow goes on unless the condition is None.
ProceedsUnlessNone(condition) == condition # PyNone

\* if condition: ... return
Proceeds(condition) == Truthy(condition)

\* ShortCircuitOperator.execute, the callable returning condition
ShortCircuitExecute ==
    /\ skipop.pc = "start"
    /\ \E condition \in PyValues :
        LET so == [skipop EXCEPT !.pc = "done", !.kind = "short_circuit",
                                 !.ret = condition]
            downstream_tasks == FlatRelatives(dag, 0)
        IN  skipop' = IF Proceeds(condition) THEN so
                      ELSE IF downstream_tasks # {} THEN Skip(so, downstream_tasks)
                      ELSE so
    /\ UNCHANGED <<args, op, pc, fs, tmp_dir, hist, spawned, raised, ret, script,
                   seen, ninv, dag, log, codec>>

\* A task graph with a branching task, about to execute; no virtualenv operator.
InitSkip ==
    /\ InitFor({})
    /\ dag \in Dags
    /\ skipop = [NoSkipOp EXCEPT !.pc = "start"]

NextSkip ==
    \/ BranchExecute
    \/ ShortCircuitExecute

SpecSkip == InitSkip /\ [][NextSkip]_vars

\* ------------------------------------------------------------------ properties

Running(p) == pc[p] \notin {"new", "ctor_failed", "idle", "DONE", "FAILED"}
Ended(p) == pc[p] \in {"DONE", "FAILED"}
Constructed(p) == pc[p] \notin {"new", "ctor_failed"}
Last(s) == s[Len(s)]
Rank(step) == CHOOSE i \in 1..Len(Steps) : Steps[i] = step

\* C1: the directory made for an invocation exists while the invocation runs
\* and no longer exists once the invocation has ended, whether it returned or
\* raised at any step.
C1_WorkspaceReleased ==
    \A p \in Procs :
        /\ Running(p) => tmp_dir[p] \in 1..Len(fs) /\ fs[tmp_dir[p]].exists
        /\ Ended(p) => tmp_dir[p] \in 1..Len(fs) /\ ~fs[tmp_dir[p]].exists

\* An invocation whose environment-creation command exited non-zero has ended
\* with the exception raised, and its directory is gone.
C1_Witness ==
    \E p \in Procs :
        /\ pc[p] = "FAILED"
        /\ Last(hist[p]) = "PROVISION_ENV"
        /\ raised[p] = "CalledProcessError"
        /\ ~fs[tmp_dir[p]].exists


\* The steps that come before `step` in the order and are not skipped by an
\* operator with requirements reqs (INSTALL_DEPS is skipped when it has none).
EarlierSteps(step, reqs) ==
    { Steps[i] : i \in 1..(Rank(step) - 1) }
    \ (IF reqs = <<>> THEN {"INSTALL_DEPS"} ELSE {})

C2_Order(p) ==
    \* the steps entered are in the order of Steps, each at most once
    /\ \A i, j \in 1..Len(hist[p]) : i < j => Rank(hist[p][i]) < Rank(hist[p][j])
    \* a step is entered only after every earlier step that is not skipped
    /\ \A j \in 1..Len(hist[p]) :
          EarlierSteps(hist[p][j], op[p].requirements)
             \subseteq { hist[p][i] : i \in 1..(j - 1) }
    \* the step to run next comes after all that were entered, and every step
    \* entered so far has completed without an exception
    /\ Running(p) =>
          /\ hist[p] # <<>>
          /\ Rank(pc[p]) > Rank(Last(hist[p]))
          /\ raised[p] = "none"
          /\ EarlierSteps(pc[p], op[p].requirements)
                \subseteq { hist[p][i] : i \in 1..Len(hist[p]) }
    /\ pc[p] = "DONE" => raised[p] = "none" /\ Last(hist[p]) = "READ_RESULT"
    /\ pc[p] = "FAILED" => raised[p] # "none"

\* After a step has raised, the invocation enters no further step; the steps
\* entered only grow by one step at a time, until a new invocation begins.
C2_NoStepAfterFailure(p) ==
    /\ (pc[p] = "FAILED" /\ hist'[p] # hist[p]) => hist'[p] = <<"INIT">>
    /\ (Running(p) /\ hist'[p] # hist[p]) => hist'[p] = Append(hist[p], pc[p])

\* C2: within one invocation the steps occur only in the order INIT,
\* PROVISION_ENV, INSTALL_DEPS (skippable), WRITE_INPUTS, WRITE_SCRIPT,
\* WRITE_STRING_ARGS, RUN, READ_RESULT, DONE: each at most once, none before
\* the earlier non-skipped steps have completed, and never back to an earlier one.
C2_StepOrder ==
    /\ [](\A p \in Procs : C2_Order(p))
    /\ [][\A p \in Procs : C2_NoStepAfterFailure(p)]_vars

\* An invocation with requirements has gone through every step and returned.
C2_Witness ==
    \E p \in Procs :
        /\ pc[p] = "DONE"
        /\ hist[p] = SubSeq(Steps, 1, 8)
        /\ op[p].requirements # <<>>

\* The commands run by the invocation that name the interpreter of the
\* environment, <tmp_dir>/bin/python.
PythonRuns(p) ==
    { i \in 1..Len(spawned[p]) : spawned[p][i].cmd[1].s = "bin/python" }

\* C3: an invocation fails as a unit and is not retried.  A command that exits
\* non-zero is the last one the invocation runs and its failure reaches the
\* caller: after a failed environment creation or install the program is never
\* run, after a failed program the result file is never read, and in both
\* cases nothing is returned.  A result is returned only when every step
\* completed, and no command is run twice.
C3_FailsAsUnit ==
    \A p \in Procs :
        /\ \A i \in 1..Len(spawned[p]) :
              spawned[p][i].status # 0 =>
                 /\ i = Len(spawned[p])
                 /\ pc[p] = "FAILED"
                 /\ raised[p] = "CalledProcessError"
                 /\ ~ret[p].set
                 /\ ~seen[p].stat
                 /\ (i \notin PythonRuns(p) => PythonRuns(p) = {} /\ ~script[p].ran)
        /\ ret[p].set =>
              /\ pc[p] = "DONE"
              /\ raised[p] = "none"
              /\ { hist[p][i] : i \in 1..Len(hist[p]) }
                   = { Steps[i] : i \in 1..8 }
                       \ (IF op[p].requirements = <<>> THEN {"INSTALL_DEPS"} ELSE {})
              /\ \A i \in 1..Len(spawned[p]) : spawned[p][i].status = 0
        /\ \A i, j \in 1..Len(spawned[p]) :
              i # j => spawned[p][i].cmd # spawned[p][j].cmd

\* The dependency-install command exited non-zero: the invocation has failed
\* and the program was not run.
C3_Witness ==
    \E p \in Procs :
        /\ pc[p] = "FAILED"
        /\ Len(spawned[p]) = 2
        /\ spawned[p][2].cmd[1].s = "bin/pip"
        /\ spawned[p][2].status # 0
        /\ raised[p] = "CalledProcessError"


\* The package a requirement string names: the text before any version
\* specifier, extra or marker, in lower case.
RECURSIVE PackageName(_)
PackageName(r) ==
    IF r = <<>> \/ Head(r) \in {"=", "<", ">", "!", "~", "[", ";", " "} THEN <<>>
    ELSE <<LowerChar(Head(r))>> \o PackageName(Tail(r))

\* The list given as requirements (none: the empty list) names dill.
DillRequired(a) ==
    \E i \in 1..Len(a.requirements.val) :
        PackageName(a.requirements.val[i]) = <<"d", "i", "l", "l">>

\* use_dill with system packages excluded and dill absent from requirements
DillMisconfigured(a) ==
    a.use_dill /\ ~a.system_site_packages /\ ~DillRequired(a)

\* C4: constructing the operator with a lambda, or with use_dill while system
\* packages are excluded and dill is absent from requirements, fails at
\* construction, before any subprocess is spawned; no such operator instance
\* exists or reaches PROVISION_ENV.
C4_MisconfigurationRejected ==
    \A p \in Procs :
        (args[p].python_callable.kind = "lambda" \/ DillMisconfigured(args[p]))
            => /\ ~Constructed(p)
               /\ spawned[p] = <<>>
               /\ pc[p] = "ctor_failed" => raised[p] \in {"dill_missing", "not_function"}

\* The interpreter major version given differs from the caller's.
MajorDiffers(a) == ~a.python_version.none /\ a.python_version.major # a.sys_major

\* Positional or keyword arguments are given.
ArgsGiven(a) == a.op_args.val # <<>> \/ a.op_kwargs.val # {}

\* C5: construction with an explicit interpreter major version that differs
\* from the caller's and with positional or keyword arguments fails; the same
\* construction with no such arguments and only string_args succeeds; with the
\* same major version, or none given, arguments never make construction fail.
C5_CrossVersionArgsRejected ==
    \A p \in Procs :
        pc[p] # "new" =>
            /\ (MajorDiffers(args[p]) /\ ArgsGiven(args[p])) => pc[p] = "ctor_failed"
            /\ (/\ MajorDiffers(args[p])
                /\ ~ArgsGiven(args[p])
                /\ args[p].python_callable.kind = "def_function"
                /\ ~DillMisconfigured(args[p])) => Constructed(p)
            /\ ~MajorDiffers(args[p]) => raised[p] # "cross_version"
            /\ raised[p] = "cross_version" => pc[p] = "ctor_failed"

\* A construction with a minor version of another major version and with
\* arguments has failed on the version check.
C5_Witness ==
    \E p \in Procs :
        /\ pc[p] = "ctor_failed"
        /\ raised[p] = "cross_version"
        /\ args[p].python_version.major = 2
        /\ args[p].python_version.minor = 7
        /\ args[p].sys_major = 3
        /\ ~args[p].op_args.none
        /\ args[p].op_args.val # <<>>

\* C6: an operator constructed with an explicit interpreter major version
\* differing from the caller's never writes a serialized input file, and never
\* generates or runs a program that loads one, in any invocation.
C6_NoCrossVersionMarshalling ==
    \A p \in Procs :
        (MajorDiffers(args[p]) /\ Constructed(p)) =>
            /\ ~script[p].loaded
            /\ Running(p) =>
                /\ ~FileAt(fs, InputFilename(tmp_dir[p])).exists
                /\ FileAt(fs, ScriptFilename(tmp_dir[p])).exists =>
                      ~HasLine(FileAt(fs, ScriptFilename(tmp_dir[p])).data, "load_args")

\* C7 as amended: every constructed operator holds a function object that is
\* not named as a lambda is: construction fails for a lambda, a bound method,
\* an object that is callable without being a function, and a non-callable; a
\* function taken from its class is rejected by Python 2 only; a closure over
\* outer variables is accepted like a plain function.
C7_FunctionNotLambda ==
    \A p \in Procs :
        /\ Constructed(p) =>
              /\ args[p].python_callable.kind \in {"def_function", "closure", "class_function"}
              /\ args[p].python_callable.kind = "class_function" => args[p].sys_major = 3
        /\ (/\ pc[p] # "new"
            /\ args[p].python_callable.kind \in {"def_function", "closure"}
            /\ ~DillMisconfigured(args[p])
            /\ ~(MajorDiffers(args[p]) /\ ArgsGiven(args[p]))) => Constructed(p)

\* A construction with a lambda has failed on the function check.
C7_Witness ==
    \E p \in Procs :
        /\ args[p].python_callable.kind = "lambda"
        /\ pc[p] = "ctor_failed"
        /\ raised[p] = "not_function"

\* C7: every constructed operator holds a plain named function: construction
\* fails for a lambda, a method, a closure over outer variables and any other
\* kind of callable.
C7_PlainFunctionOnly ==
    \A p \in Procs :
        Constructed(p) => args[p].python_callable.kind = "def_function"


\* C8: the serialized input file is written if and only if
\* len(op_args) + len(op_kwargs) > 0 when it is to be written; the program
\* loads the input file if and only if the file was written in the same
\* invocation, and otherwise starts from an empty positional sequence and an
\* empty keyword mapping without reading the input file.
C8_InputFileIffArgs ==
    \A p \in Procs :
        LET some == Len(op[p].op_args) + Cardinality(op[p].op_kwargs) > 0
            d == tmp_dir[p]
        IN  /\ Running(p) =>
               LET inp == FileAt(fs, InputFilename(d))
                   scr == FileAt(fs, ScriptFilename(d))
               IN  /\ inp.exists <=> ("WRITE_INPUTS" \in { hist[p][i] : i \in 1..Len(hist[p]) }
                                      /\ some)
                   /\ scr.exists =>
                        /\ HasLine(scr.data, "load_args") <=> inp.exists
                        /\ HasLine(scr.data, "empty_args") <=> ~inp.exists
            /\ script[p].called =>
                  /\ script[p].loaded <=> some
                  /\ script[p].loaded =>
                        script[p].arg_dict = [args |-> op[p].op_args, kwargs |-> op[p].op_kwargs]
                  /\ ~script[p].loaded =>
                        script[p].arg_dict = [args |-> <<>>, kwargs |-> {}]

\* With no arguments the program has called the function with empty
\* containers and there is no input file in the directory.
C8_Witness ==
    \E p \in Procs :
        /\ pc[p] = "READ_RESULT"
        /\ script[p].called
        /\ ~script[p].loaded
        /\ script[p].arg_dict = [args |-> <<>>, kwargs |-> {}]
        /\ ~FileAt(fs, InputFilename(tmp_dir[p])).exists
        /\ HasLine(FileAt(fs, ScriptFilename(tmp_dir[p])).data, "empty_args")

\* C9: for every invocation that returned, the result is None if and only if
\* the output file was zero-length, and the output file was zero-length if and
\* only if the function returned None; a false-like value that is not None
\* gives a non-empty output file and is the result.
C9_AbsentIffNone ==
    \A p \in Procs :
        pc[p] = "DONE" =>
            /\ ret[p].set /\ seen[p].stat /\ script[p].returned
            /\ ret[p].val = PyNone <=> seen[p].size = 0
            /\ seen[p].size = 0 <=> script[p].res = PyNone
            /\ ret[p].val = script[p].res

\* The function returned 0: the output file was not empty and 0 is the result.
C9_Witness ==
    \E p \in Procs :
        /\ pc[p] = "DONE"
        /\ script[p].res = <<"int", "0">>
        /\ seen[p].size > 0
        /\ ret[p].val = <<"int", "0">>

\* C10: for every list of string_args free of newlines, the list bound to
\* virtualenv_string_args in the program has the length of the list supplied
\* and its i-th element is the i-th string supplied, trimmed, in the same order.
C10_StringArgsRoundTrip ==
    \A p \in Procs :
        LET given == op[p].string_args IN
        (/\ script[p].read_strings
         /\ \A i \in 1..Len(given) : \A j \in 1..Len(given[i]) : given[i][j] # NL)
            => /\ Len(script[p].virtualenv_string_args) = Len(given)
               /\ \A i \in 1..Len(given) :
                     script[p].virtualenv_string_args[i] = Strip(given[i])


\* C11: the run command is [<tmp_dir>/bin/python, script, input file, output
\* file, string-args file] in that order, and the program reads the pickled
\* arguments only from sys.argv[1], writes the result only to sys.argv[2] and
\* reads the string-args only from sys.argv[3]: the files it reads are the
\* ones the invocation wrote, and the file it writes is the one _read_result
\* reads.
C11_ArgvContract ==
    \A p \in Procs :
        LET d == tmp_dir[p] IN
        /\ \A i \in PythonRuns(p) :
              spawned[p][i].cmd =
                 << [dir |-> d, s |-> "bin/python", v |-> <<>>],
                    [dir |-> d, s |-> "script.py", v |-> <<>>],
                    [dir |-> d, s |-> "script.in", v |-> <<>>],
                    [dir |-> d, s |-> "script.out", v |-> <<>>],
                    [dir |-> d, s |-> "string_args.txt", v |-> <<>> ] >>
        /\ Running(p) /\ FileAt(fs, ScriptFilename(d)).exists =>
              LET code == FileAt(fs, ScriptFilename(d)).data IN
              \A i \in 1..Len(code) :
                 /\ code[i].what = "load_args" => code[i].argv = 1
                 /\ code[i].what = "dump_result" => code[i].argv = 2
                 /\ code[i].what = "read_string_args" => code[i].argv = 3
                 /\ code[i].what \notin {"load_args", "dump_result", "read_string_args"}
                       => code[i].argv = 0
        /\ script[p].loaded => script[p].in_path = InputFilename(d)
        /\ script[p].read_strings => script[p].str_path = StringArgsFilename(d)
        /\ script[p].opened_out => script[p].out_path = OutputFilename(d)
        /\ script[p].loaded =>
              script[p].arg_dict = [args |-> op[p].op_args, kwargs |-> op[p].op_kwargs]
        /\ pc[p] = "DONE" => script[p].opened_out /\ ret[p].val = script[p].res

\* The program loaded the arguments, read the string-args and wrote a result,
\* each at the path the invocation uses, and the result has been read.
C11_Witness ==
    \E p \in Procs :
        /\ pc[p] = "DONE"
        /\ script[p].loaded
        /\ script[p].in_path = InputFilename(tmp_dir[p])
        /\ script[p].str_path = StringArgsFilename(tmp_dir[p])
        /\ script[p].out_path = OutputFilename(tmp_dir[p])
        /\ ret[p].val = <<"int", "5">>


\* The task ids directly downstream of task t in the graph.
Downstream(t) == { e[2] : e \in { x \in dag : x[1] = t } }

\* C12: BranchPythonOperator.execute marks as skipped exactly the set
\* downstream(self) \ ({branch} \cup downstream(branch)): the chosen branch is
\* never skipped, nor is a task directly downstream of both self and the branch.
C12_BranchSkipSet ==
    (skipop.pc = "done" /\ skipop.kind = "branch") =>
        skipop.skipped = Downstream(0) \ ({skipop.branch} \cup Downstream(skipop.branch))

\* There is a path of edges of the graph from task t to task u.
Reaches(t, u) ==
    \E path \in UNION { [1..n -> TaskIds] : n \in 2..(MaxTasks + 1) } :
        /\ path[1] = t
        /\ path[Len(path)] = u
        /\ \A i \in 1..(Len(path) - 1) : <<path[i], path[i + 1]>> \in dag

\* C15: ShortCircuitOperator.execute marks no task skipped when the callable's
\* result is truthy; when it is falsy it marks every task downstream of this
\* task, directly or not, and calls skip if and only if there is such a task.
C15_ShortCircuit ==
    (skipop.pc = "done" /\ skipop.kind = "short_circuit") =>
        LET truthy == skipop.ret \in { <<"int", "5">>, <<"str", "x">> }
            below == { u \in TaskIds : Reaches(0, u) }
        IN  /\ truthy => skipop.skipped = {} /\ skipop.skip_calls = 0
            /\ ~truthy =>
                  /\ skipop.skipped = below
                  /\ skipop.skip_calls = (IF below = {} THEN 0 ELSE 1)

\* The callable returned 0 in a graph where task 2 is downstream of this task
\* only through task 1: both are skipped, by one call.
C15_Witness ==
    /\ skipop.pc = "done"
    /\ skipop.kind = "short_circuit"
    /\ skipop.ret = <<"int", "0">>
    /\ dag = { <<0, 1>>, <<1, 2>> }
    /\ skipop.skipped = {1, 2}
    /\ skipop.skip_calls = 1


\* The keyword arguments the constructor was given, {} for None.
GivenKwargs(p) == IF args[p].op_kwargs.none THEN {} ELSE args[p].op_kwargs.val

\* templates_dict is a dict with an entry.
TemplatesGiven(p) == args[p].templates_dict \notin { PyNone, <<"dict">> }

\* C14: an invocation leaves the callable, the requirements, the interpreter
\* version, the system-packages flag, the extended-pickling flag, the
\* string_args and the positional arguments of the operator as constructed;
\* op_kwargs alone changes, by the entry templates_dict, only when
\* templates_dict is not empty, and is the same after a second invocation as
\* after the first.
C14_OperatorFrame ==
    \A p \in Procs : Constructed(p) =>
        LET a == Attributes(args[p]) IN
        /\ \A k \in DOMAIN a \ {"op_kwargs"} : op[p][k] = a[k]
        /\ op[p].op_kwargs =
              IF ninv[p] > 0 /\ TemplatesGiven(p)
              THEN GivenKwargs(p) \cup { <<"templates_dict", args[p].templates_dict>> }
              ELSE GivenKwargs(p)

\* A second invocation has ended with templates_dict merged into the keyword
\* arguments given.
C14_Witness ==
    \E p \in Procs :
        /\ ninv[p] = 2
        /\ pc[p] = "DONE"
        /\ TemplatesGiven(p)
        /\ GivenKwargs(p) # {}
        /\ op[p].op_kwargs = GivenKwargs(p) \cup { <<"templates_dict", <<"dict", "t", "v">>>> }


\* The elements of a sequence.
Range(s) == { s[i] : i \in DOMAIN s }

\* The requirements the constructor was given, none for None.
GivenRequirements(p) ==
    IF args[p].requirements.none THEN <<>> ELSE args[p].requirements.val

\* The commands of process p that ran the program named.
CmdsOf(p, program) ==
    { i \in 1..Len(spawned[p]) : spawned[p][i].cmd[1].s = program }

\* C16: the environment is made by [virtualenv, tmp_dir], then
\* --system-site-packages if and only if system_site_packages, then
\* --python=python<version> if and only if python_version is given; the install
\* step runs if and only if there are requirements, its command being
\* [<tmp_dir>/bin/pip, install] and the requirements in their order; with no
\* requirements no pip is spawned.
C16_ProvisionerCommands ==
    \A p \in Procs :
        LET a == args[p]
            d == tmp_dir[p]
            reqs == GivenRequirements(p)
            ssp == IF a.system_site_packages THEN 1 ELSE 0
            ver == IF a.python_version.none THEN 0 ELSE 1
        IN  /\ Len(spawned[p]) > 0 =>
                LET cmd == spawned[p][1].cmd IN
                /\ Len(cmd) = 2 + ssp + ver
                /\ cmd[1] = [dir |-> 0, s |-> "virtualenv", v |-> <<>>]
                /\ cmd[2] = [dir |-> d, s |-> "", v |-> <<>>]
                /\ ssp = 1 => cmd[3] = [dir |-> 0, s |-> "--system-site-packages", v |-> <<>>]
                /\ ver = 1 => cmd[Len(cmd)] = [dir |-> 0, s |-> "--python=python",
                                               v |-> VersionStr(a.python_version)]
            /\ CmdsOf(p, "virtualenv") = { i \in {1} : "PROVISION_ENV" \in Range(hist[p]) }
            /\ "INSTALL_DEPS" \in Range(hist[p]) => reqs # <<>>
            /\ (reqs # <<>> /\ Len(hist[p]) > 2) => hist[p][3] = "INSTALL_DEPS"
            /\ CmdsOf(p, "bin/pip") = { i \in {2} : "INSTALL_DEPS" \in Range(hist[p]) }
            /\ \A i \in CmdsOf(p, "bin/pip") :
                  LET cmd == spawned[p][i].cmd IN
                  /\ Len(cmd) = 2 + Len(reqs)
                  /\ cmd[1] = [dir |-> d, s |-> "bin/pip", v |-> <<>>]
                  /\ cmd[2] = [dir |-> 0, s |-> "install", v |-> <<>>]
                  /\ \A j \in 1..Len(reqs) : cmd[j + 2] = [dir |-> 0, s |-> "", v |-> reqs[j]]

\* An environment made for python 2.7 with the system's packages, and two
\* requirements installed into it in the order given.
C16_Witness ==
    \E p \in Procs :
        /\ GivenRequirements(p) = << <<"n", "p">>, <<"d", "i", "l", "l">> >>
        /\ args[p].system_site_packages
        /\ args[p].python_version = [none |-> FALSE, major |-> 2, minor |-> 7]
        /\ Len(spawned[p]) >= 2
        /\ Len(spawned[p][1].cmd) = 4
        /\ spawned[p][2].status = 0
        /\ spawned[p][2].cmd[3].v = <<"n", "p">>
        /\ spawned[p][2].cmd[4].v = <<"d", "i", "l", "l">>


\* The output of a command came with the latest call of _execute_in_subprocess
\* logged before the command ran.
CommandLoggedFirst(p) ==
    /\ log[p].events[1] = "log Executing cmd"
    /\ log[p].events[2] = "check_output"

\* On a non-zero exit the output is logged and then the error raised, the
\* step failing with it.
FailureLoggedAndRaised(p) ==
    log[p].status # 0 =>
        /\ log[p].events = <<"log Executing cmd", "check_output",
                             "log Got error output", "raise">>
        /\ pc[p] = "FAILED"
        /\ raised[p] = "CalledProcessError"

\* C17 as claimed: every command is logged before it is executed and its
\* captured output logged after it exits; on a non-zero exit the output is
\* logged before the failure is raised again, which it always is.
C17_OutputAlwaysLogged ==
    \A p \in Procs : log[p].events # <<>> =>
        /\ CommandLoggedFirst(p)
        /\ FailureLoggedAndRaised(p)
        /\ log[p].status = 0 => log[p].events[3] = "log Got output"

\* C17: every command is logged before it is executed; when it exits with
\* status 0 its captured output is logged after the exit if and only if it is
\* not empty; on a non-zero exit the output is logged, empty or not, before
\* the failure is raised again, which it always is.
C17_RunnerOrdering ==
    \A p \in Procs : log[p].events # <<>> =>
        /\ CommandLoggedFirst(p)
        /\ FailureLoggedAndRaised(p)
        /\ log[p].status = 0 =>
              log[p].events = IF log[p].output
                              THEN <<"log Executing cmd", "check_output",
                                     "log Got output", "return">>
                              ELSE <<"log Executing cmd", "check_output", "return">>

\* pip has failed with no output: the empty output is logged and the error
\* raised; before it virtualenv had succeeded.
C17_Witness ==
    \E p \in Procs :
        /\ Len(spawned[p]) = 2
        /\ log[p].status # 0
        /\ ~log[p].output
        /\ log[p].events[3] = "log Got error output"
        /\ raised[p] = "CalledProcessError"

\* The library selected by use_dill as the constructor was given it.
Selected(p) == IF args[p].use_dill THEN "dill" ELSE "pickle"

\* C18: within an invocation the library that writes the input file, the one
\* that loads it in the program, the one that dumps the result in the program
\* and the one that reads the result file are all the one use_dill selects:
\* dill if it is set and pickle if not, never one of each.
C18_CodecConsistency ==
    \A p \in Procs :
        /\ { codec[p].write_args, script[p].load_lib, script[p].dump_lib,
             codec[p].read_result } \subseteq { "none", Selected(p) }
        /\ script[p].loaded => codec[p].write_args = Selected(p) /\ script[p].load_lib = Selected(p)
        /\ (script[p].returned /\ script[p].res # PyNone) => script[p].dump_lib = Selected(p)
        /\ (pc[p] = "DONE" /\ ret[p].val # PyNone) => codec[p].read_result = Selected(p)

\* An invocation with use_dill and arguments has ended with a result: dill at
\* the four sites.
C18_Witness ==
    \E p \in Procs :
        /\ pc[p] = "DONE"
        /\ args[p].use_dill
        /\ codec[p].write_args = "dill"
        /\ script[p].load_lib = "dill"
        /\ script[p].dump_lib = "dill"
        /\ codec[p].read_result = "dill"


\* C19 as claimed: whenever an invocation is about to read the result, the
\* program having exited with status 0, the output file exists in the
\* directory, whether or not the function returned a value.
C19_OutputFileExists ==
    \A p \in Procs :
        pc[p] = "READ_RESULT" => FileAt(fs, OutputFilename(tmp_dir[p])).exists

\* C19: when an invocation is about to read the result, the output file exists
\* if and only if the function returned to the program, with a value or with
\* None; a function that ends the process with status 0 leaves no output file,
\* and only then does reading the result fail on a missing file.
C19_OutputFileIfReturned ==
    \A p \in Procs :
        /\ pc[p] = "READ_RESULT" =>
              (FileAt(fs, OutputFilename(tmp_dir[p])).exists <=> script[p].returned)
        /\ (pc[p] = "FAILED" /\ raised[p] = "OSError") =>
              /\ Last(hist[p]) = "READ_RESULT"
              /\ script[p].called
              /\ ~script[p].returned

\* The function has returned None and the program exited with status 0: the
\* output file is there, empty, for the result to be read from.
C19_Witness ==
    \E p \in Procs :
        /\ pc[p] = "READ_RESULT"
        /\ script[p].returned
        /\ script[p].res = PyNone
        /\ FileAt(fs, OutputFilename(tmp_dir[p])) = [exists |-> TRUE, data |-> <<>>]


\* Each running invocation has a directory that no other running one has.
OwnWorkspace ==
    \A p, q \in Procs : (p # q /\ Running(p) /\ Running(q)) => tmp_dir[p] # tmp_dir[q]

\* Every path in a command of an invocation, and every file its program read
\* or wrote, is in the invocation's own directory.
OwnArtifacts ==
    \A p \in Procs :
        /\ \A i \in 1..Len(spawned[p]) : \A j \in 1..Len(spawned[p][i].cmd) :
              spawned[p][i].cmd[j].dir \in {0, tmp_dir[p]}
        /\ script[p].loaded => script[p].in_path.dir = tmp_dir[p]
        /\ script[p].read_strings => script[p].str_path.dir = tmp_dir[p]
        /\ script[p].opened_out => script[p].out_path.dir = tmp_dir[p]

\* What an invocation's program was given and what the invocation returns are
\* what its own operator holds and its own program made.
OwnOutcome ==
    \A p \in Procs :
        /\ script[p].loaded =>
              script[p].arg_dict = [args |-> op[p].op_args, kwargs |-> op[p].op_kwargs]
        /\ script[p].read_strings =>
              script[p].virtualenv_string_args =
                 [i \in 1..Len(op[p].string_args) |-> Strip(op[p].string_args[i])]
        /\ pc[p] = "DONE" => script[p].returned /\ ret[p].val = script[p].res
        /\ (pc[p] = "FAILED" /\ Last(hist[p]) = "READ_RESULT") => ~script[p].returned

\* A step changes, makes or removes a directory only if it is a step of the
\* invocation whose directory it is.
OwnSteps ==
    \A d \in 1..Len(fs') :
        (d > Len(fs) \/ fs'[d] # fs[d]) =>
            \E p \in Procs : hist'[p] # hist[p] /\ tmp_dir'[p] = d

\* C13: with the steps of two invocations interleaved in any order, each has a
\* directory of its own while it runs, neither reads, overwrites or deletes a
\* file of the other, and each ends as it would alone: on its own arguments
\* and with the result of its own program.
C13_Independent ==
    [](OwnWorkspace /\ OwnArtifacts /\ OwnOutcome) /\ [][OwnSteps]_vars

\* Both invocations are about to read a result, each from its own directory;
\* the results differ.
C13_Witness ==
    /\ Procs = {1, 2}
    /\ pc[1] = "READ_RESULT"
    /\ pc[2] = "READ_RESULT"
    /\ tmp_dir[1] # tmp_dir[2]
    /\ script[1].loaded
    /\ FileAt(fs, OutputFilename(tmp_dir[1])).data = Dump(<<"int", "5">>)
    /\ FileAt(fs, OutputFilename(tmp_dir[2])).data = Dump(<<"str", "x">>)

====
